---- MODULE Spec2Model ----
(***************************************************************************)
(* Model of the intraday back-testing engine (backtest_engine.py):         *)
(* ExecutionModel, StopTargetEngine and the Backtester per-bar loop.       *)
(*                                                                         *)
(* Numbers.  The engine computes on Python floats.  They are modelled as   *)
(* exact rationals <<num, den>> in lowest terms with den > 0; NaN is the   *)
(* pair <<0, 0>> and Python's None is the empty tuple <<>>.                *)
(*                                                                         *)
(* Data frame.  The engine reads the frame one row at a time: row i is     *)
(* read at the top of iteration i and by the final close.  The model       *)
(* keeps len(df) and the row being read; the content of each row is drawn  *)
(* from Rows when the loop reaches it.  A timestamp is modelled by the     *)
(* row's index (timestamps are ascending and unique) together with its     *)
(* time of day in minutes.                                                 *)
(***************************************************************************)
EXTENDS Integers, Sequences, FiniteSets, TLC

----------------------------------------------------------------------------
(* Exact rational arithmetic standing for float arithmetic *)

Abs(x) == IF x < 0 THEN -x ELSE x

RECURSIVE GCD(_, _)
GCD(a, b) == IF b = 0 THEN a ELSE GCD(b, a % b)

Norm(n, d) == LET g == GCD(Abs(n), d) IN <<n \div g, d \div g>>

R(k) == <<k, 1>>

Frac(n, d) == Norm(n, d)

None == <<>>

NaN == <<0, 0>>

IsNaN(x) == x = NaN

LCM(a, b) == (a \div GCD(a, b)) * b

Add(x, y) ==
    LET l == LCM(x[2], y[2])
    IN  Norm(x[1] * (l \div x[2]) + y[1] * (l \div y[2]), l)

Neg(x) == <<-x[1], x[2]>>

Sub(x, y) == Add(x, Neg(y))

Mul(x, y) ==
    LET g1 == GCD(Abs(x[1]), y[2])
        g2 == GCD(Abs(y[1]), x[2])
    IN  IF x[1] = 0 \/ y[1] = 0 THEN R(0)
        ELSE <<(x[1] \div g1) * (y[1] \div g2), (x[2] \div g2) * (y[2] \div g1)>>

Inv(x) == IF x[1] < 0 THEN <<-x[2], -x[1]>> ELSE <<x[2], x[1]>>

Div(x, y) == Mul(x, Inv(y))

\* The sign of x - y, by comparing integer parts and then the remainders
\* (no product of a numerator and a denominator is formed)
RECURSIVE CmpPos(_, _, _, _)
CmpPos(a, b, c, d) ==
    LET q1 == a \div b
        q2 == c \div d
        r1 == a % b
        r2 == c % d
    IN  IF q1 # q2 THEN q1 - q2
        ELSE IF r1 = 0 \/ r2 = 0 THEN r1 - r2
        ELSE CmpPos(d, r2, b, r1)

Cmp(x, y) ==
    IF x[1] <= 0 /\ y[1] >= 0 THEN x[1] - y[1]
    ELSE IF x[1] >= 0 /\ y[1] <= 0 THEN x[1] - y[1]
    ELSE IF x[1] > 0 THEN CmpPos(x[1], x[2], y[1], y[2])
    ELSE CmpPos(-y[1], y[2], -x[1], x[2])

Lt(x, y) == Cmp(x, y) < 0

Le(x, y) == Cmp(x, y) <= 0

Min(x, y) == IF Lt(y, x) THEN y ELSE x

----------------------------------------------------------------------------
(* Bounds of the model and the value sets the inputs are drawn from *)

MaxBars == 4

Tods == {575, 965}

Opens == {R(100), R(102)}

Highs == {R(102), R(104)}

Lows == {R(97), R(99)}

Atrs == {R(0), R(2)}

Rows == [tod : Tods, open : Opens, high : Highs, low : Lows, atr : Atrs]

Signals == {"enter_long", "enter_short", "exit", "none"}

Configs == [initial_equity : {R(1), R(1000), R(2000)}, slippage_bps : {R(0), R(5000)}]

----------------------------------------------------------------------------
(* Configuration defaults *)

commission_per_trade == Frac(1, 2)

risk_fraction == Frac(1, 100)

max_leverage == R(2)

session_start == 575

session_end == 960

NoTime == -1

NoRow == [tod |-> 0, open |-> None, high |-> None, low |-> None, atr |-> None]

----------------------------------------------------------------------------
(* State *)

VARIABLES
    cfg,            \* constructor arguments: initial_equity, slippage_bps
    n,              \* len(self.df)
    i,              \* loop index of run
    pc,             \* position of run: "loop", "stoptarget", "signal", "done"
                    \* ("check", "checked", "strategy" when a function is run on its own)
    row,            \* the row of df being processed (df.iloc[i])
    fill,           \* what check_stop_target returned on this bar (None if not called)
    sig,            \* what strategy.signal returned on this bar ("unqueried" if not called)
    held,           \* the position and equity as they were when this bar was fetched
    position, size, entry_price, entry_time, stop, target,
    equity, trades, equity_curve,
    res,            \* the dictionary run returns
    entered,        \* the bar, atr and equity at the last call of _enter that opened a position
    strategy        \* the strategy object: its kind, cooldown counter and position flag

engine == <<position, size, entry_price, entry_time, stop, target, equity, trades>>

vars == <<cfg, n, i, pc, row, fill, sig, held, position, size, entry_price,
          entry_time, stop, target, equity, trades, equity_curve, res,
          entered, strategy>>

----------------------------------------------------------------------------
(* ExecutionModel *)

next_open_with_slippage(next_open, direction) ==
    LET slip == Mul(next_open, Div(cfg.slippage_bps, R(10000)))
    IN  Add(next_open, Mul(slip, R(direction)))

commission == commission_per_trade

----------------------------------------------------------------------------
(* StopTargetEngine *)

\* check_stop_target with the target tested before the stop
check_target_first(bar_high, bar_low, stp, tgt, direction) ==
    IF stp = None /\ tgt = None THEN None
    ELSE IF direction = 1
    THEN IF tgt # None /\ Le(tgt, bar_high) THEN <<"target", tgt>>
         ELSE IF stp # None /\ Le(bar_low, stp) THEN <<"stop", stp>>
         ELSE None
    ELSE IF tgt # None /\ Le(bar_low, tgt) THEN <<"target", tgt>>
         ELSE IF stp # None /\ Le(stp, bar_high) THEN <<"stop", stp>>
         ELSE None

\* check_stop_target with strict comparisons: a level that the bar only
\* touches does not trigger
check_strict(bar_high, bar_low, stp, tgt, direction) ==
    IF stp = None /\ tgt = None THEN None
    ELSE IF direction = 1
    THEN LET hit_stop == stp # None /\ Lt(bar_low, stp)
             hit_target == tgt # None /\ Lt(tgt, bar_high)
         IN  IF hit_stop /\ hit_target THEN <<"stop", stp>>
             ELSE IF hit_stop THEN <<"stop", stp>>
             ELSE IF hit_target THEN <<"target", tgt>>
             ELSE None
    ELSE LET hit_stop == stp # None /\ Lt(stp, bar_high)
             hit_target == tgt # None /\ Lt(bar_low, tgt)
         IN  IF hit_stop /\ hit_target THEN <<"stop", stp>>
             ELSE IF hit_stop THEN <<"stop", stp>>
             ELSE IF hit_target THEN <<"target", tgt>>
             ELSE None

check_stop_target(bar_high, bar_low, stp, tgt, direction) ==
    IF stp = None /\ tgt = None THEN None
    ELSE IF direction = 1
    THEN LET hit_stop == stp # None /\ Le(bar_low, stp)
             hit_target == tgt # None /\ Le(tgt, bar_high)
         IN  IF hit_stop /\ hit_target THEN <<"stop", stp>>
             ELSE IF hit_stop THEN <<"stop", stp>>
             ELSE IF hit_target THEN <<"target", tgt>>
             ELSE None
    ELSE LET hit_stop == stp # None /\ Le(stp, bar_high)
             hit_target == tgt # None /\ Le(bar_low, tgt)
         IN  IF hit_stop /\ hit_target THEN <<"stop", stp>>
             ELSE IF hit_stop THEN <<"stop", stp>>
             ELSE IF hit_target THEN <<"target", tgt>>
             ELSE None

----------------------------------------------------------------------------
(* Backtester *)

_in_session(tod) == session_start <= tod /\ tod <= session_end

\* _position_sizing bounded by the leverage cap alone
_position_sizing_no_risk_cap(price, atr) ==
    IF atr = None \/ IsNaN(atr) \/ atr = R(0) THEN R(0)
    ELSE Div(Mul(equity, max_leverage), price)

\* _position_sizing that falls back to the leverage cap when atr is
\* undefined or zero
_position_sizing_without_atr(price, atr) ==
    IF atr = None \/ IsNaN(atr) \/ atr = R(0)
    THEN Div(Mul(equity, max_leverage), price)
    ELSE LET risk_capital == Mul(equity, risk_fraction)
             units == Div(risk_capital, atr)
             max_units == Div(Mul(equity, max_leverage), price)
         IN  Min(units, max_units)

_position_sizing(price, atr) ==
    IF atr = None \/ IsNaN(atr) \/ atr = R(0) THEN R(0)
    ELSE LET risk_capital == Mul(equity, risk_fraction)
             units == Div(risk_capital, atr)
             max_units == Div(Mul(equity, max_leverage), price)
         IN  Min(units, max_units)

\* _enter with the commission of the entry left out
_enter_no_commission(k, direction, dfi) ==
    LET next_open == dfi.open
        price == next_open_with_slippage(next_open, direction)
        atr == dfi.atr
        units == _position_sizing(price, atr)
    IN  IF Le(units, R(0))
        THEN UNCHANGED engine
        ELSE /\ position' = direction
             /\ size' = units
             /\ entry_price' = price
             /\ entry_time' = k
             /\ IF direction = 1
                THEN /\ stop' = Sub(price, atr)
                     /\ target' = Add(price, Mul(Frac(3, 2), atr))
                ELSE /\ stop' = Add(price, atr)
                     /\ target' = Sub(price, Mul(Frac(3, 2), atr))
             /\ UNCHANGED <<equity, trades>>

\* _enter that pays the commission before it knows the size
_enter_pays_when_skipped(k, direction, dfi) ==
    LET next_open == dfi.open
        price == next_open_with_slippage(next_open, direction)
        atr == dfi.atr
        units == _position_sizing(price, atr)
    IN  /\ equity' = Sub(equity, commission)
        /\ UNCHANGED trades
        /\ IF Le(units, R(0))
           THEN UNCHANGED <<position, size, entry_price, entry_time, stop, target>>
           ELSE /\ position' = direction
                /\ size' = units
                /\ entry_price' = price
                /\ entry_time' = k
                /\ IF direction = 1
                   THEN /\ stop' = Sub(price, atr)
                        /\ target' = Add(price, Mul(Frac(3, 2), atr))
                   ELSE /\ stop' = Add(price, atr)
                        /\ target' = Sub(price, Mul(Frac(3, 2), atr))

\* _enter that stamps the entry with the bar after the signal bar
_enter_stamps_next_bar(k, direction, dfi) ==
    LET next_open == dfi.open
        price == next_open_with_slippage(next_open, direction)
        atr == dfi.atr
        units == _position_sizing(price, atr)
    IN  IF Le(units, R(0))
        THEN UNCHANGED engine
        ELSE /\ position' = direction
             /\ size' = units
             /\ entry_price' = price
             /\ entry_time' = k + 1
             /\ IF atr # None /\ ~IsNaN(atr) /\ Lt(R(0), atr)
                THEN IF direction = 1
                     THEN /\ stop' = Sub(price, atr)
                          /\ target' = Add(price, Mul(Frac(3, 2), atr))
                     ELSE /\ stop' = Add(price, atr)
                          /\ target' = Sub(price, Mul(Frac(3, 2), atr))
                ELSE /\ stop' = None
                     /\ target' = None
             /\ equity' = Sub(equity, commission)
             /\ UNCHANGED trades

\* _enter(i, direction, reason); dfi is row i of self.df
_enter(k, direction, dfi) ==
    LET next_open == dfi.open
        price == next_open_with_slippage(next_open, direction)
        atr == dfi.atr
        units == _position_sizing(price, atr)
    IN  IF Le(units, R(0))
        THEN UNCHANGED engine
        ELSE /\ position' = direction
             /\ size' = units
             /\ entry_price' = price
             /\ entry_time' = k
             /\ IF atr # None /\ ~IsNaN(atr) /\ Lt(R(0), atr)
                THEN IF direction = 1
                     THEN /\ stop' = Sub(price, atr)
                          /\ target' = Add(price, Mul(Frac(3, 2), atr))
                     ELSE /\ stop' = Add(price, atr)
                          /\ target' = Sub(price, Mul(Frac(3, 2), atr))
                ELSE /\ stop' = None
                     /\ target' = None
             /\ equity' = Sub(equity, commission)
             /\ UNCHANGED trades

\* _exit that books the pnl and charges no commission
_exit_no_commission(k, reason, price_override, dfi) ==
    IF position = 0
    THEN UNCHANGED engine
    ELSE LET next_open == dfi.open
             price == IF price_override # None THEN price_override
                      ELSE next_open_with_slippage(next_open, -position)
             pnl == Mul(Mul(Sub(price, entry_price), size), R(position))
         IN  /\ equity' = Add(equity, pnl)
             /\ trades' = Append(trades,
                    [entry_time |-> entry_time, exit_time |-> k,
                     direction |-> position, entry_price |-> entry_price,
                     exit_price |-> price, size |-> size, pnl |-> pnl,
                     reason |-> reason])
             /\ position' = 0
             /\ size' = R(0)
             /\ entry_price' = None
             /\ entry_time' = NoTime
             /\ stop' = None
             /\ target' = None

\* _exit that leaves the stop and the target of the closed position in place
_exit_keeps_levels(k, reason, price_override, dfi) ==
    IF position = 0
    THEN UNCHANGED engine
    ELSE LET next_open == dfi.open
             price == IF price_override # None THEN price_override
                      ELSE next_open_with_slippage(next_open, -position)
             pnl == Mul(Mul(Sub(price, entry_price), size), R(position))
         IN  /\ equity' = Sub(Add(equity, pnl), commission)
             /\ trades' = Append(trades,
                    [entry_time |-> entry_time, exit_time |-> k,
                     direction |-> position, entry_price |-> entry_price,
                     exit_price |-> price, size |-> size, pnl |-> pnl,
                     reason |-> reason])
             /\ position' = 0
             /\ size' = R(0)
             /\ entry_price' = None
             /\ entry_time' = NoTime
             /\ UNCHANGED <<stop, target>>

\* _exit that leaves the size of the closed position in place
_exit_keeps_size(k, reason, price_override, dfi) ==
    IF position = 0
    THEN UNCHANGED engine
    ELSE LET next_open == dfi.open
             price == IF price_override # None THEN price_override
                      ELSE next_open_with_slippage(next_open, -position)
             pnl == Mul(Mul(Sub(price, entry_price), size), R(position))
         IN  /\ equity' = Sub(Add(equity, pnl), commission)
             /\ trades' = Append(trades,
                    [entry_time |-> entry_time, exit_time |-> k,
                     direction |-> position, entry_price |-> entry_price,
                     exit_price |-> price, size |-> size, pnl |-> pnl,
                     reason |-> reason])
             /\ position' = 0
             /\ entry_price' = None
             /\ entry_time' = NoTime
             /\ stop' = None
             /\ target' = None
             /\ UNCHANGED size

\* _exit that always fills at the open with slippage
_exit_ignores_override(k, reason, price_override, dfi) ==
    IF position = 0
    THEN UNCHANGED engine
    ELSE LET next_open == dfi.open
             price == next_open_with_slippage(next_open, -position)
             pnl == Mul(Mul(Sub(price, entry_price), size), R(position))
         IN  /\ equity' = Sub(Add(equity, pnl), commission)
             /\ trades' = Append(trades,
                    [entry_time |-> entry_time, exit_time |-> k,
                     direction |-> position, entry_price |-> entry_price,
                     exit_price |-> price, size |-> size, pnl |-> pnl,
                     reason |-> reason])
             /\ position' = 0
             /\ size' = R(0)
             /\ entry_price' = None
             /\ entry_time' = NoTime
             /\ stop' = None
             /\ target' = None

\* _exit(i, reason, price_override); dfi is row i of self.df
_exit(k, reason, price_override, dfi) ==
    IF position = 0
    THEN UNCHANGED engine
    ELSE LET next_open == dfi.open
             price == IF price_override # None THEN price_override
                      ELSE next_open_with_slippage(next_open, -position)
             pnl == Mul(Mul(Sub(price, entry_price), size), R(position))
         IN  /\ equity' = Sub(Add(equity, pnl), commission)
             /\ trades' = Append(trades,
                    [entry_time |-> entry_time, exit_time |-> k,
                     direction |-> position, entry_price |-> entry_price,
                     exit_price |-> price, size |-> size, pnl |-> pnl,
                     reason |-> reason])
             /\ position' = 0
             /\ size' = R(0)
             /\ entry_price' = None
             /\ entry_time' = NoTime
             /\ stop' = None
             /\ target' = None

\* What the engine held when row k was fetched
Snapshot(k) ==
    [bar |-> k, position |-> position, size |-> size, entry_price |-> entry_price,
     stop |-> stop, target |-> target, equity |-> equity]

NoResult == [final_equity |-> None, return_pct |-> None]

NoEntry == [bar |-> NoTime, atr |-> None, equity |-> None]

\* A strategy of which run knows only that signal returns one of Signals
AnyStrategy == [kind |-> "any", cooldown |-> 0, position |-> 0]

\* Backtester.__init__: the state after construction
Init ==
    /\ cfg \in Configs
    /\ n \in 0..MaxBars
    /\ i = 1
    /\ pc = "loop"
    /\ row = NoRow
    /\ fill = None
    /\ sig = "unqueried"
    /\ equity = cfg.initial_equity
    /\ position = 0
    /\ size = R(0)
    /\ entry_price = None
    /\ entry_time = NoTime
    /\ stop = None
    /\ target = None
    /\ trades = <<>>
    /\ equity_curve = <<>>
    /\ held = Snapshot(0)
    /\ res = NoResult
    /\ entered = NoEntry
    /\ strategy = AnyStrategy

\* The out-of-session branch without the forced close
OutOfSessionNoExit ==
    /\ pc = "loop"
    /\ i < n - 1
    /\ \E r \in Rows :
        /\ ~_in_session(r.tod)
        /\ row' = r
    /\ UNCHANGED engine
    /\ held' = Snapshot(i)
    /\ fill' = None
    /\ sig' = "unqueried"
    /\ equity_curve' = Append(equity_curve, [datetime |-> i, equity |-> equity'])
    /\ i' = i + 1
    /\ pc' = "loop"
    /\ UNCHANGED <<cfg, n, strategy, entered, res>>

\* The out-of-session branch without the equity point
OutOfSessionNoPoint ==
    /\ pc = "loop"
    /\ i < n - 1
    /\ \E r \in Rows :
        /\ ~_in_session(r.tod)
        /\ row' = r
        /\ _exit(i, "session_end", None, r)
    /\ held' = Snapshot(i)
    /\ fill' = None
    /\ sig' = "unqueried"
    /\ i' = i + 1
    /\ pc' = "loop"
    /\ UNCHANGED <<cfg, n, strategy, entered, res, equity_curve>>

\* run, a bar outside the session: force-close, record equity, continue
OutOfSession ==
    /\ pc = "loop"
    /\ i < n - 1
    /\ \E r \in Rows :
        /\ ~_in_session(r.tod)
        /\ row' = r
        /\ _exit(i, "session_end", None, r)
    /\ held' = Snapshot(i)
    /\ fill' = None
    /\ sig' = "unqueried"
    /\ equity_curve' = Append(equity_curve, [datetime |-> i, equity |-> equity'])
    /\ i' = i + 1
    /\ pc' = "loop"
    /\ UNCHANGED <<cfg, n, strategy, entered, res>>

\* run, a bar inside the session: go on to the stop/target check
InSession ==
    /\ pc = "loop"
    /\ i < n - 1
    /\ \E r \in Rows :
        /\ _in_session(r.tod)
        /\ row' = r
    /\ held' = Snapshot(i)
    /\ fill' = None
    /\ sig' = "unqueried"
    /\ pc' = "stoptarget"
    /\ UNCHANGED <<cfg, n, strategy, entered, i, res, equity_curve>>
    /\ UNCHANGED engine

\* run, the stop/target check of an open position
StopTargetCheck ==
    /\ pc = "stoptarget"
    /\ IF position # 0
       THEN /\ fill' = check_stop_target(row.high, row.low, stop, target, position)
            /\ IF fill' # None
               THEN _exit(i, fill'[1], fill'[2], row)
               ELSE UNCHANGED engine
       ELSE /\ fill' = None
            /\ UNCHANGED engine
    /\ pc' = "signal"
    /\ UNCHANGED <<cfg, n, strategy, entered, i, row, sig, held, res, equity_curve>>

\* The signal step without the guards on the position: an entry signal
\* replaces an open position
StrategySignalReverses ==
    /\ pc = "signal"
    /\ \E s \in Signals :
        /\ sig' = s
        /\ IF s = "enter_long" THEN _enter(i, 1, row)
           ELSE IF s = "enter_short" THEN _enter(i, -1, row)
           ELSE IF s = "exit" /\ position # 0 THEN _exit(i, "exit", None, row)
           ELSE UNCHANGED engine
    /\ entered' = IF position = 0 /\ position' # 0
                  THEN [bar |-> i, atr |-> row.atr, equity |-> equity]
                  ELSE entered
    /\ equity_curve' = Append(equity_curve, [datetime |-> i, equity |-> equity'])
    /\ i' = i + 1
    /\ pc' = "loop"
    /\ UNCHANGED <<cfg, n, strategy, row, fill, held, res>>

\* run, the strategy's signal and the equity point of the bar
StrategySignal ==
    /\ pc = "signal"
    /\ \E s \in Signals :
        /\ sig' = s
        /\ IF s = "enter_long" /\ position = 0 THEN _enter(i, 1, row)
           ELSE IF s = "enter_short" /\ position = 0 THEN _enter(i, -1, row)
           ELSE IF s = "exit" /\ position # 0 THEN _exit(i, "exit", None, row)
           ELSE UNCHANGED engine
    /\ entered' = IF position = 0 /\ position' # 0
                  THEN [bar |-> i, atr |-> row.atr, equity |-> equity]
                  ELSE entered
    /\ equity_curve' = Append(equity_curve, [datetime |-> i, equity |-> equity'])
    /\ i' = i + 1
    /\ pc' = "loop"
    /\ UNCHANGED <<cfg, n, strategy, row, fill, held, res>>

\* The final close logged under the reason of the session close
FinalCloseAsSessionEnd ==
    /\ pc = "loop"
    /\ ~(i < n - 1)
    /\ \E r \in Rows :
        /\ row' = IF n > 0 THEN r ELSE NoRow
        /\ _exit(n - 1, "session_end", None, r)
    /\ held' = Snapshot(n - 1)
    /\ res' = [final_equity |-> equity',
               return_pct |-> Mul(Sub(Div(equity', cfg.initial_equity), R(1)), R(100))]
    /\ fill' = None
    /\ sig' = "unqueried"
    /\ pc' = "done"
    /\ UNCHANGED <<cfg, n, strategy, entered, i, equity_curve>>

\* run, after the loop: the final close and the returned dictionary
FinalClose ==
    /\ pc = "loop"
    /\ ~(i < n - 1)
    /\ \E r \in Rows :
        /\ row' = IF n > 0 THEN r ELSE NoRow
        /\ _exit(n - 1, "final_close", None, r)
    /\ held' = Snapshot(n - 1)
    /\ res' = [final_equity |-> equity',
               return_pct |-> Mul(Sub(Div(equity', cfg.initial_equity), R(1)), R(100))]
    /\ fill' = None
    /\ sig' = "unqueried"
    /\ pc' = "done"
    /\ UNCHANGED <<cfg, n, strategy, entered, i, equity_curve>>

Next == OutOfSession \/ InSession \/ StopTargetCheck \/ StrategySignal \/ FinalClose

Spec == Init /\ [][Next]_vars

----------------------------------------------------------------------------
(* StopTargetEngine.check_stop_target on its own *)

\* The stop and target arguments: absent, at the bar's low or high, or
\* strictly between and beyond them
Levels == {None, R(96), R(97), R(98), R(99), R(102), R(103), R(104), R(105)}

DefaultConfig == [initial_equity |-> R(1000), slippage_bps |-> R(0)]

\* The arguments of one call: bar_high and bar_low in row, stop, target and
\* position as direction
InitCheck ==
    /\ cfg = DefaultConfig
    /\ n = 0
    /\ i = 0
    /\ pc = "check"
    /\ row \in {r \in Rows : r.tod = session_start /\ r.open = R(100) /\ r.atr = R(2)}
    /\ stop \in Levels
    /\ target \in Levels
    /\ position \in {1, -1}
    /\ fill = None
    /\ sig = "unqueried"
    /\ equity = cfg.initial_equity
    /\ size = R(0)
    /\ entry_price = None
    /\ entry_time = NoTime
    /\ trades = <<>>
    /\ equity_curve = <<>>
    /\ held = Snapshot(0)
    /\ res = NoResult
    /\ entered = NoEntry
    /\ strategy = AnyStrategy

\* One call of check_stop_target
CallCheck ==
    /\ pc = "check"
    /\ fill' = check_stop_target(row.high, row.low, stop, target, position)
    /\ pc' = "checked"
    /\ UNCHANGED <<cfg, n, i, row, sig, held, res, entered, strategy, equity_curve>>
    /\ UNCHANGED engine

NextCheck == CallCheck

SpecCheck == InitCheck /\ [][NextCheck]_vars

----------------------------------------------------------------------------
(* strategies.py: IntradayMeanReversion and IntradayBreakout on their own *)

\* The constructor defaults of the two strategies, times in minutes of the
\* day: 10:00-15:30 and 6 bars, 09:45-15:50 and 8 bars
MeanReversionInit ==
    [kind |-> "mean_reversion", min_time |-> 600, max_time |-> 930,
     cooldown_bars |-> 6, cooldown |-> 0, position |-> 0]

BreakoutInit ==
    [kind |-> "breakout", min_time |-> 585, max_time |-> 950,
     cooldown_bars |-> 8, cooldown |-> 0, position |-> 0]

\* Rows as IntradayMeanReversion reads them: the time of day at and next to
\* the ends of its window, a close below, between and above the bands
MeanReversionRows ==
    [tod : {599, 600, 930, 931},
     close : {R(95), R(98), R(102), R(105)},
     bb_dn : {R(97)}, bb_mid : {R(100)}, bb_up : {R(103)},
     rsi : {R(20), R(50), R(80)}]

\* Rows as IntradayBreakout reads them: a high and a low on either side of
\* the channel
BreakoutRows ==
    [tod : {584, 585, 950, 951},
     high : {R(102), R(104)}, don_high : {R(103)},
     low : {R(97), R(99)}, don_low : {R(98)},
     atr : Atrs]

\* _tod_ok without the upper end of the window
_tod_ok_no_max(st, tod) == st.min_time <= tod

\* _tod_ok(ts) of either strategy st
_tod_ok(st, tod) == st.min_time <= tod /\ tod <= st.max_time

\* The cooldown after the decrement that opens signal
Cooled(st) == IF st.cooldown > 0 THEN st.cooldown - 1 ELSE st.cooldown

\* IntradayMeanReversion.signal(i, df), prev = df.iloc[i-1], r = df.iloc[i]:
\* the signal returned and the strategy after the call
MeanReversion_signal(st, prev, r) ==
    LET cooldown == Cooled(st)
        st1 == [st EXCEPT !.cooldown = cooldown]
        armed == [st EXCEPT !.cooldown = st.cooldown_bars]
    IN  IF ~_tod_ok(st, r.tod)
        THEN [signal |-> "none", strategy |-> st1]
        ELSE IF Lt(prev.close, prev.bb_mid) /\ Le(r.bb_mid, r.close)
        THEN [signal |-> "exit", strategy |-> st1]
        ELSE IF Lt(prev.bb_mid, prev.close) /\ Le(r.close, r.bb_mid)
        THEN [signal |-> "exit", strategy |-> st1]
        ELSE IF cooldown = 0 /\ Lt(prev.close, prev.bb_dn) /\ Lt(prev.rsi, R(30))
                /\ Lt(r.bb_dn, r.close)
        THEN [signal |-> "enter_long", strategy |-> armed]
        ELSE IF cooldown = 0 /\ Lt(prev.bb_up, prev.close) /\ Lt(R(70), prev.rsi)
                /\ Lt(r.close, r.bb_up)
        THEN [signal |-> "enter_short", strategy |-> armed]
        ELSE [signal |-> "none", strategy |-> st1]

\* IntradayBreakout.signal(i, df), r = df.iloc[i]
Breakout_signal(st, r) ==
    LET cooldown == Cooled(st)
        st1 == [st EXCEPT !.cooldown = cooldown]
        long_break == Lt(r.don_high, r.high)
        short_break == Lt(r.low, r.don_low)
        flat == [st EXCEPT !.position = 0, !.cooldown = st.cooldown_bars]
    IN  IF ~_tod_ok(st, r.tod)
        THEN [signal |-> "none", strategy |-> st1]
        ELSE IF st.position = 1 /\ short_break
        THEN [signal |-> "exit", strategy |-> flat]
        ELSE IF st.position = -1 /\ long_break
        THEN [signal |-> "exit", strategy |-> flat]
        ELSE IF cooldown = 0 /\ long_break /\ Lt(R(0), r.atr)
        THEN [signal |-> "enter_long",
              strategy |-> [st EXCEPT !.position = 1, !.cooldown = st.cooldown_bars]]
        ELSE IF cooldown = 0 /\ short_break /\ Lt(R(0), r.atr)
        THEN [signal |-> "enter_short",
              strategy |-> [st EXCEPT !.position = -1, !.cooldown = st.cooldown_bars]]
        ELSE [signal |-> "none", strategy |-> st1]

\* A fresh strategy of either class and row 0 of the frame; in this
\* specification held is the row before the one signal was last called on
InitStrategy ==
    /\ \/ strategy = MeanReversionInit /\ row \in MeanReversionRows
       \/ strategy = BreakoutInit /\ row \in BreakoutRows
    /\ cfg = DefaultConfig
    /\ n = 0
    /\ i = 1
    /\ pc = "strategy"
    /\ fill = None
    /\ sig = "unqueried"
    /\ held = NoRow
    /\ equity = cfg.initial_equity
    /\ position = 0
    /\ size = R(0)
    /\ entry_price = None
    /\ entry_time = NoTime
    /\ stop = None
    /\ target = None
    /\ trades = <<>>
    /\ equity_curve = <<>>
    /\ res = NoResult
    /\ entered = NoEntry

\* One call of IntradayMeanReversion.signal on the next row
SignalMeanReversion ==
    /\ pc = "strategy"
    /\ strategy.kind = "mean_reversion"
    /\ \E r \in MeanReversionRows :
        LET out == MeanReversion_signal(strategy, row, r)
        IN  /\ sig' = out.signal
            /\ strategy' = out.strategy
            /\ row' = r
    /\ held' = row
    /\ UNCHANGED <<cfg, n, i, pc, fill, res, entered, equity_curve>>
    /\ UNCHANGED engine

\* One call of IntradayBreakout.signal on the next row
SignalBreakout ==
    /\ pc = "strategy"
    /\ strategy.kind = "breakout"
    /\ \E r \in BreakoutRows :
        LET out == Breakout_signal(strategy, r)
        IN  /\ sig' = out.signal
            /\ strategy' = out.strategy
            /\ row' = r
    /\ held' = row
    /\ UNCHANGED <<cfg, n, i, pc, fill, res, entered, equity_curve>>
    /\ UNCHANGED engine

NextStrategy == SignalMeanReversion \/ SignalBreakout

SpecStrategy == InitStrategy /\ [][NextStrategy]_vars

----------------------------------------------------------------------------
(* Backtester.run driven by IntradayBreakout, on the frame that
   _prepare_indicators builds *)

Max(x, y) == IF Lt(x, y) THEN y ELSE x

\* The highest high and the lowest low of the 19 bars before a row
EarlierHighs == {R(101), R(103)}

EarlierLows == {R(98), R(100)}

\* The times of day of the prepared rows: in the session and before the
\* strategy's window, in both, and after both
PreparedTods == {575, 600, 965}

\* A channel that looks at the earlier bars only
don_high_of_earlier_bars(earlier_high, high) == earlier_high

\* df['don_high'] = high.rolling(20).max(): the window ends at the row itself
don_high(earlier_high, high) == Max(earlier_high, high)

\* df['don_low'] = low.rolling(20).min()
don_low(earlier_low, low) == Min(earlier_low, low)

\* The rows of self.df after _prepare_indicators, as run and
\* IntradayBreakout.signal read them
PreparedRows ==
    {[tod |-> t, open |-> o, high |-> h, low |-> l, atr |-> a,
      don_high |-> don_high(eh, h), don_low |-> don_low(el, l)] :
        t \in PreparedTods, o \in {R(100)}, h \in Highs, l \in Lows, a \in Atrs,
        eh \in EarlierHighs, el \in EarlierLows}

\* Backtester.__init__ and IntradayBreakout.__init__
InitBreakoutRun ==
    /\ cfg \in Configs
    /\ n \in 0..MaxBars
    /\ i = 1
    /\ pc = "loop"
    /\ row = NoRow
    /\ fill = None
    /\ sig = "unqueried"
    /\ equity = cfg.initial_equity
    /\ position = 0
    /\ size = R(0)
    /\ entry_price = None
    /\ entry_time = NoTime
    /\ stop = None
    /\ target = None
    /\ trades = <<>>
    /\ equity_curve = <<>>
    /\ held = Snapshot(0)
    /\ res = NoResult
    /\ entered = NoEntry
    /\ strategy = BreakoutInit

\* run, a prepared bar outside the session
PreparedOutOfSession ==
    /\ pc = "loop"
    /\ i < n - 1
    /\ \E r \in PreparedRows :
        /\ ~_in_session(r.tod)
        /\ row' = r
        /\ _exit(i, "session_end", None, r)
    /\ held' = Snapshot(i)
    /\ fill' = None
    /\ sig' = "unqueried"
    /\ equity_curve' = Append(equity_curve, [datetime |-> i, equity |-> equity'])
    /\ i' = i + 1
    /\ pc' = "loop"
    /\ UNCHANGED <<cfg, n, strategy, entered, res>>

\* run, a prepared bar inside the session
PreparedInSession ==
    /\ pc = "loop"
    /\ i < n - 1
    /\ \E r \in PreparedRows :
        /\ _in_session(r.tod)
        /\ row' = r
    /\ held' = Snapshot(i)
    /\ fill' = None
    /\ sig' = "unqueried"
    /\ pc' = "stoptarget"
    /\ UNCHANGED <<cfg, n, strategy, entered, i, res, equity_curve>>
    /\ UNCHANGED engine

\* run, sig = strategy.signal(i, self.df) of an IntradayBreakout, what run
\* does with it, and the equity point of the bar
BreakoutStrategySignal ==
    /\ pc = "signal"
    /\ LET out == Breakout_signal(strategy, row)
           s == out.signal
       IN  /\ sig' = s
           /\ strategy' = out.strategy
           /\ IF s = "enter_long" /\ position = 0 THEN _enter(i, 1, row)
              ELSE IF s = "enter_short" /\ position = 0 THEN _enter(i, -1, row)
              ELSE IF s = "exit" /\ position # 0 THEN _exit(i, "exit", None, row)
              ELSE UNCHANGED engine
    /\ entered' = IF position = 0 /\ position' # 0
                  THEN [bar |-> i, atr |-> row.atr, equity |-> equity]
                  ELSE entered
    /\ equity_curve' = Append(equity_curve, [datetime |-> i, equity |-> equity'])
    /\ i' = i + 1
    /\ pc' = "loop"
    /\ UNCHANGED <<cfg, n, row, fill, held, res>>

\* run, after the loop, on the last prepared row
PreparedFinalClose ==
    /\ pc = "loop"
    /\ ~(i < n - 1)
    /\ \E r \in PreparedRows :
        /\ row' = IF n > 0 THEN r ELSE NoRow
        /\ _exit(n - 1, "final_close", None, r)
    /\ held' = Snapshot(n - 1)
    /\ res' = [final_equity |-> equity',
               return_pct |-> Mul(Sub(Div(equity', cfg.initial_equity), R(1)), R(100))]
    /\ fill' = None
    /\ sig' = "unqueried"
    /\ pc' = "done"
    /\ UNCHANGED <<cfg, n, strategy, entered, i, equity_curve>>

NextBreakoutRun ==
    \/ PreparedOutOfSession
    \/ PreparedInSession
    \/ StopTargetCheck
    \/ BreakoutStrategySignal
    \/ PreparedFinalClose

SpecBreakoutRun == InitBreakoutRun /\ [][NextBreakoutRun]_vars

TypeOK ==
    /\ pc \in {"loop", "stoptarget", "signal", "done"}
    /\ position \in {-1, 0, 1}
    /\ Len(equity_curve) <= MaxBars

----------------------------------------------------------------------------
(* Properties *)

Last(q) == q[Len(q)]

\* The trades closed on the bar being processed
ClosedOnBar == {k \in 1..Len(trades) : trades[k].exit_time = held.bar}

\* A stop or target exit was forced on this bar
Forced == fill # None

\* C1 (as claimed): on a bar where the stop/target check forced an exit,
\* the strategy is not queried and no new position is opened on that bar.
C1_NoSignalAfterForcedExit ==
    Forced => (sig = "unqueried" /\ position = 0)

\* What the code does instead: a position opened by the signal on the very
\* bar whose stop/target check forced an exit
C1_ReentryOnForcedBar ==
    /\ Forced
    /\ pc = "loop"
    /\ sig \in {"enter_long", "enter_short"}
    /\ position # 0
    /\ entry_time = held.bar
    /\ Last(trades).exit_time = held.bar

\* C2: when run returns, the position is flat: position = 0, size = 0 and
\* entry_price, entry_time, stop and target are all null.
C2_FlatAfterRun ==
    pc = "done" =>
        /\ position = 0
        /\ size = R(0)
        /\ entry_price = None
        /\ entry_time = NoTime
        /\ stop = None
        /\ target = None

\* A run that ended by closing a position that was still open at the last bar
C2_Witness ==
    /\ pc = "done"
    /\ held.position # 0
    /\ trades # <<>>
    /\ Last(trades).reason = "final_close"

RECURSIVE SumPnl(_)
SumPnl(q) == IF q = <<>> THEN R(0) ELSE Add(SumPnl(SubSeq(q, 1, Len(q) - 1)), Last(q).pnl)

\* C3: every trade has pnl = (exit_price - entry_price) * size * direction,
\* and after a complete run final_equity - initial_equity equals
\* sum(pnl) - commission_per_trade * 2 * (number of trades).
C3_EquityConservation ==
    /\ \A k \in 1..Len(trades) :
         trades[k].pnl = Mul(Mul(Sub(trades[k].exit_price, trades[k].entry_price),
                                 trades[k].size), R(trades[k].direction))
    /\ pc = "done" =>
         Sub(res.final_equity, cfg.initial_equity)
           = Sub(SumPnl(trades), Mul(commission_per_trade, R(2 * Len(trades))))

\* The scenario of the claim: 1000 of equity, one long round trip 100 -> 102
\* of size 5, commission 0.5: pnl 10, final_equity 1009, return_pct 0.9
C3_Witness ==
    /\ pc = "done"
    /\ cfg.initial_equity = R(1000)
    /\ Len(trades) = 1
    /\ trades[1].direction = 1
    /\ trades[1].entry_price = R(100)
    /\ trades[1].exit_price = R(102)
    /\ trades[1].size = R(5)
    /\ trades[1].pnl = R(10)
    /\ res.final_equity = R(1009)
    /\ res.return_pct = Frac(9, 10)

\* The bar being processed crosses both the stop and the target of the
\* position held when it was fetched
BothCrossed ==
    /\ row # NoRow
    /\ held.position # 0
    /\ held.stop # None
    /\ held.target # None
    /\ IF held.position = 1
       THEN Le(row.low, held.stop) /\ Le(held.target, row.high)
       ELSE Le(held.stop, row.high) /\ Le(row.low, held.target)

\* The stop/target check has run on the bar being processed
Checked == pc \in {"signal", "loop"} /\ row # NoRow /\ _in_session(row.tod)

\* C4 (as claimed): when the bar crosses both the stop and the target,
\* check_stop_target answers ('stop', stop) and the trade that run closes
\* on that bar has reason 'stop'.
C4_StopOnEveryCrossedBar ==
    BothCrossed =>
        /\ Checked => fill = <<"stop", held.stop>>
        /\ \A k \in ClosedOnBar : trades[k].reason = "stop"

\* C4 (amended): when a bar that the loop processes inside the session
\* crosses both levels, check_stop_target answers ('stop', stop), never
\* ('target', target), and the trade closed by that check has reason 'stop';
\* outside the session and on the last bar the check does not run.
C4_StopPrecedence ==
    (BothCrossed /\ Checked) =>
        /\ fill = <<"stop", held.stop>>
        /\ ClosedOnBar # {}
        /\ \A k \in ClosedOnBar :
             trades[k].reason = "stop" /\ trades[k].exit_price = held.stop

\* Both levels crossed inside the session by a bar with a long position
C4_Witness ==
    /\ BothCrossed /\ Checked /\ held.position = 1 /\ pc = "signal"
    /\ fill = <<"stop", held.stop>>
    /\ Last(trades).reason = "stop"

\* The same for a short position
C4_WitnessShort ==
    /\ BothCrossed /\ Checked /\ held.position = -1 /\ pc = "signal"
    /\ fill = <<"stop", held.stop>>
    /\ Last(trades).reason = "stop"

\* The bar being processed is outside the session and a position was open
OpenOutOfSession ==
    /\ row # NoRow
    /\ ~_in_session(row.tod)
    /\ held.position # 0

\* C5 (as claimed): every bar of the input outside [session_start,
\* session_end] with a position open yields a trade with reason
\* 'session_end' exiting on that bar, and the strategy is not called.
C5_SessionCloseOnEveryBar ==
    OpenOutOfSession =>
        /\ \E k \in ClosedOnBar : trades[k].reason = "session_end"
        /\ sig = "unqueried"

\* C5 (amended): every bar that the main loop processes (index 1 to
\* len(df) - 2) outside the session with a position open yields a trade
\* with reason 'session_end' exiting on that bar, and the strategy is not
\* called; on the last bar of the input the reason is 'final_close'.
C5_SessionForceClose ==
    /\ (OpenOutOfSession /\ pc # "done") =>
         /\ ClosedOnBar = {Len(trades)}
         /\ Last(trades).reason = "session_end"
         /\ position = 0
         /\ sig = "unqueried"
    /\ (OpenOutOfSession /\ pc = "done") =>
         /\ ClosedOnBar = {Len(trades)}
         /\ Last(trades).reason = "final_close"

C5_Witness ==
    /\ OpenOutOfSession
    /\ pc = "loop"
    /\ Last(trades).reason = "session_end"
    /\ Last(trades).exit_time = i - 1

\* C6 (as claimed): final_equity is the equity of the last point of the
\* returned equity curve, and return_pct = (that value / initial_equity - 1) * 100.
C6_FinalEquityIsLastPoint ==
    (pc = "done" /\ equity_curve # <<>>) =>
        /\ res.final_equity = Last(equity_curve).equity
        /\ res.return_pct =
             Mul(Sub(Div(Last(equity_curve).equity, cfg.initial_equity), R(1)), R(100))

Enters == {"enter_long", "enter_short"}

\* The step in which run calls _enter and the sizing gives no units: the
\* bar's atr is zero or undefined, or the sized units are <= 0
EntrySkipped ==
    /\ pc = "signal"
    /\ position = 0
    /\ sig' \in Enters
    /\ LET d == IF sig' = "enter_long" THEN 1 ELSE -1
           price == next_open_with_slippage(row.open, d)
       IN  \/ row.atr = None
           \/ IsNaN(row.atr)
           \/ row.atr = R(0)
           \/ Le(_position_sizing(price, row.atr), R(0))

\* C7: an entry whose bar has a zero or undefined atr, or whose sized units
\* are <= 0, changes nothing: position, size, entry_price, entry_time, stop,
\* target, equity (no commission) and the trade log stay as they were, and
\* no trade of size <= 0 is ever in the log.
C7_NoEntryWithoutSizing ==
    /\ [](\A k \in 1..Len(trades) : Lt(R(0), trades[k].size))
    /\ [][EntrySkipped => UNCHANGED engine]_vars

\* An entry was asked for on a bar inside the session and skipped
SkippedBar ==
    /\ pc = "loop"
    /\ row # NoRow
    /\ sig \in Enters
    /\ position = 0

\* A skipped entry on a bar whose atr is zero
C7_Witness == SkippedBar /\ row.atr = R(0) /\ equity = held.equity

\* A skipped entry with a positive atr, the equity having fallen to <= 0
C7_WitnessNoEquity == SkippedBar /\ Lt(R(0), row.atr) /\ Le(equity, R(0))

\* C8: in every state of a run, position = 0 iff size = 0 iff entry_price
\* is null; the one position is long, short or none.
C8_PositionInvariant ==
    /\ position \in {-1, 0, 1}
    /\ (position = 0) <=> (size = R(0))
    /\ (size = R(0)) <=> (entry_price = None)
    /\ (position # 0) => Lt(R(0), size)

\* A position reopened after an earlier one was closed
C8_Witness == position # 0 /\ size # R(0) /\ entry_price # None /\ Len(trades) = 1

\* C9: when a stop or target triggers, the position is closed on that bar
\* at exactly the triggered level, without slippage, and the equity changes
\* by the pnl at that level less one commission.  For a long held at 100,
\* size 10, stop 98, target 103 and a bar with high 104, low 97: reason
\* 'stop', exit_price 98, pnl -20, equity down by 20 + commission_per_trade.
C9_ExitAtTriggeredLevel ==
    /\ Forced =>
         /\ ClosedOnBar = {Len(trades)}
         /\ LET t == Last(trades)
                level == IF fill[1] = "stop" THEN held.stop ELSE held.target
            IN  /\ fill[1] \in {"stop", "target"}
                /\ t.reason = fill[1]
                /\ t.exit_price = level
                /\ t.entry_price = held.entry_price
                /\ t.size = held.size
                /\ t.pnl = Mul(Mul(Sub(level, held.entry_price), held.size),
                               R(held.position))
                /\ pc = "signal" =>
                     equity = Sub(Add(held.equity, t.pnl), commission_per_trade)
    /\ ( /\ Checked
         /\ held.position = 1
         /\ held.entry_price = R(100)
         /\ held.size = R(10)
         /\ held.stop = R(98)
         /\ held.target = R(103)
         /\ row.high = R(104)
         /\ row.low = R(97) ) =>
         /\ Last(trades).reason = "stop"
         /\ Last(trades).exit_price = R(98)
         /\ Last(trades).pnl = R(-20)
         /\ pc = "signal" =>
              equity = Sub(held.equity, Add(R(20), commission_per_trade))

\* The scenario of the claim (entry at 100 needs a slippage of zero)
C9_Witness ==
    /\ pc = "signal"
    /\ Forced
    /\ held.position = 1
    /\ held.entry_price = R(100)
    /\ held.size = R(10)
    /\ held.stop = R(98)
    /\ held.target = R(103)
    /\ row.high = R(104)
    /\ row.low = R(97)

\* A stop or target exit under a slippage that is not zero
C9_WitnessSlippage ==
    /\ pc = "signal"
    /\ Forced
    /\ cfg.slippage_bps # R(0)

\* C10: every bar the loop processes appends exactly one equity point with
\* the bar's timestamp and the equity after the bar's exits and entries,
\* whichever branch is taken; the points are in ascending bar order and a
\* point is never changed once appended.
C10_OnePointPerBar ==
    /\ [](/\ Len(equity_curve) = i - 1
          /\ \A k \in 1..Len(equity_curve) : equity_curve[k].datetime = k
          /\ (pc = "loop" /\ i > 1) => Last(equity_curve).equity = equity
          /\ pc = "done" => Len(equity_curve) = (IF n > 2 THEN n - 2 ELSE 0))
    /\ [][/\ Len(equity_curve') \in {Len(equity_curve), Len(equity_curve) + 1}
          /\ \A k \in 1..Len(equity_curve) : equity_curve'[k] = equity_curve[k]]_vars

\* Two bars processed, the first in the session and the second outside it
C10_Witness ==
    /\ pc = "loop"
    /\ Len(equity_curve) = 2
    /\ ~_in_session(row.tod)
    /\ Len(trades) = 1
    /\ equity_curve[1].equity # equity_curve[2].equity

\* The signal returned in this step is one run does not honor: an entry
\* signal with a position open, or an exit signal with none
SignalIgnored ==
    /\ pc = "signal"
    /\ \/ sig' \in Enters /\ position # 0
       \/ sig' = "exit" /\ position = 0
       \/ sig' = "none"

\* C11: an entry signal is honored only when no position is open and an
\* exit signal only when one is open; any other signal leaves position,
\* size, entry_price, stop, target, equity and the trade log unchanged (an
\* opposite entry signal neither reverses nor closes an open position).
C11_SignalsHonoredOnlyWhenDue ==
    [][/\ SignalIgnored => UNCHANGED engine
       /\ (pc = "signal" /\ position = 0 /\ position' # 0) =>
            /\ sig' \in Enters
            /\ position' = (IF sig' = "enter_long" THEN 1 ELSE -1)
       /\ (pc = "signal" /\ position # 0 /\ position' # position) =>
            /\ sig' = "exit"
            /\ position' = 0]_vars

\* A long position held through a bar on which the strategy asked for a short
C11_Witness ==
    /\ pc = "loop"
    /\ sig = "enter_short"
    /\ held.position = 1
    /\ fill = None
    /\ position = 1
    /\ entry_time < held.bar
    /\ equity = held.equity

\* C12 (as claimed): wherever run can call _position_sizing (a flat engine
\* at the signal), at the equity reached there it returns
\* min(equity * risk_fraction / atr, equity * max_leverage / price), zero
\* when atr is undefined or <= 0, and never a negative size.
C12_SizingNeverNegative ==
    (pc = "signal" /\ position = 0) =>
        \A d \in {1, -1} : \A atr \in {row.atr, NaN, None} :
            LET price == next_open_with_slippage(row.open, d)
                units == _position_sizing(price, atr)
            IN  /\ IF atr = None \/ IsNaN(atr) \/ Le(atr, R(0))
                   THEN units = R(0)
                   ELSE units = Min(Div(Mul(equity, risk_fraction), atr),
                                    Div(Mul(equity, max_leverage), price))
                /\ ~Lt(units, R(0))

\* What the code does instead: with the equity below zero and a positive
\* atr the size is negative
C12_NegativeSize ==
    /\ pc = "signal"
    /\ position = 0
    /\ Lt(equity, R(0))
    /\ Lt(R(0), row.atr)
    /\ Lt(_position_sizing(next_open_with_slippage(row.open, 1), row.atr), R(0))

Reasons == {"stop", "target", "exit", "session_end", "final_close"}

\* The reason of the branch of run that the step from pc to pc' executes
BranchReason ==
    IF pc = "loop" /\ pc' = "loop" THEN "session_end"
    ELSE IF pc = "loop" /\ pc' = "done" THEN "final_close"
    ELSE IF pc = "signal" THEN "exit"
    ELSE IF check_stop_target(row.high, row.low, stop, target, position) = None
         THEN "unchecked"
    ELSE check_stop_target(row.high, row.low, stop, target, position)[1]

\* C14: the trade log is append-only, a step appends at most one Trade and
\* its reason is the one of the branch that closed it, all reasons being
\* among stop, target, exit, session_end and final_close; a final_close
\* trade is the last of the log, is logged once the loop is over and has
\* the index of the last bar as its exit_time.
C14_TradeLogAppendOnly ==
    /\ [](\A k \in 1..Len(trades) :
            /\ trades[k].reason \in Reasons
            /\ trades[k].reason = "final_close" =>
                 /\ k = Len(trades)
                 /\ pc = "done"
                 /\ trades[k].exit_time = n - 1)
    /\ [][\/ trades' = trades
          \/ /\ Len(trades') = Len(trades) + 1
             /\ SubSeq(trades', 1, Len(trades)) = trades
             /\ Last(trades').reason = BranchReason]_vars

\* A run over, an earlier trade in the log and the final close after it
C14_Witness ==
    /\ pc = "done"
    /\ Len(trades) = 2
    /\ trades[1].reason \in {"stop", "target"}
    /\ trades[2].reason = "final_close"
    /\ trades[2].exit_time = n - 1

\* The commissions charged so far: two per logged trade, one for an open
\* position
CommissionsPaid == 2 * Len(trades) + (IF position # 0 THEN 1 ELSE 0)

\* C17: in every state of a run equity = initial_equity + sum(pnl of the
\* logged trades) - commission_per_trade * (2 * number of logged trades
\* + 1 if a position is open); equity changes only in a step that opens a
\* position (one commission) or closes one (its pnl and one commission).
C17_EquityAccounting ==
    /\ [](equity = Sub(Add(cfg.initial_equity, SumPnl(trades)),
                       Mul(commission_per_trade, R(CommissionsPaid))))
    /\ [][equity' # equity =>
            \/ /\ position = 0
               /\ position' # 0
               /\ trades' = trades
               /\ equity' = Sub(equity, commission_per_trade)
            \/ /\ position # 0
               /\ position' = 0
               /\ Len(trades') = Len(trades) + 1
               /\ equity' = Sub(Add(equity, Last(trades').pnl), commission_per_trade)]_vars

\* A position open after a logged trade with a pnl other than zero: three
\* commissions paid
C17_Witness ==
    /\ position # 0
    /\ Len(trades) = 1
    /\ trades[1].pnl # R(0)
    /\ equity = Sub(Add(cfg.initial_equity, trades[1].pnl), Mul(commission_per_trade, R(3)))

\* C18: whenever a position is open its size is positive and its stop and
\* target are set, at stop = entry_price - atr < entry_price <
\* entry_price + 1.5 * atr = target for a long and target = entry_price -
\* 1.5 * atr < entry_price < entry_price + atr = stop for a short, atr
\* being the atr of the entry bar; no position is open with a null stop or
\* target.
C18_LevelsOfOpenPosition ==
    position # 0 =>
        /\ Lt(R(0), size)
        /\ stop # None
        /\ target # None
        /\ entered.bar = entry_time
        /\ entered.atr # None
        /\ Lt(R(0), entry_price)
        /\ IF position = 1
           THEN /\ stop = Sub(entry_price, entered.atr)
                /\ target = Add(entry_price, Mul(Frac(3, 2), entered.atr))
                /\ Lt(stop, entry_price)
                /\ Lt(entry_price, target)
           ELSE /\ stop = Add(entry_price, entered.atr)
                /\ target = Sub(entry_price, Mul(Frac(3, 2), entered.atr))
                /\ Lt(target, entry_price)
                /\ Lt(entry_price, stop)

\* A short held into a later bar: entry at 102, atr 2, stop 104, target 99
C18_Witness ==
    /\ pc = "stoptarget"
    /\ position = -1
    /\ entry_time < i
    /\ entry_price = R(102)
    /\ stop = R(104)
    /\ target = R(99)

\* The trades closed on bar b
ClosedOn(b) == {k \in 1..Len(trades) : trades[k].exit_time = b}

\* C19: every Trade exits on a bar strictly later than its entry bar, the
\* stop/target check and every other closing branch meet an open position
\* only on a bar after its entry, at most one Trade is closed per bar, and
\* each trade's entry_time is >= the previous trade's exit_time.
C19_TradesOrderedInTime ==
    /\ \A k \in 1..Len(trades) : trades[k].entry_time < trades[k].exit_time
    /\ \A k \in 1..(Len(trades) - 1) : trades[k + 1].entry_time >= trades[k].exit_time
    /\ \A b \in 0..MaxBars : Cardinality(ClosedOn(b)) <= 1
    /\ (pc = "stoptarget" /\ position # 0) => entry_time < i
    /\ (pc = "loop" /\ position # 0) => entry_time < i
    /\ (pc = "signal" /\ position # 0) => entry_time < i

\* The boundary of the claim: a trade entered on the bar on which the
\* previous one was closed, itself closed on a later bar
C19_Witness ==
    /\ Len(trades) = 2
    /\ trades[2].entry_time = trades[1].exit_time
    /\ trades[2].exit_time = trades[2].entry_time + 1

\* The logged trade of the latest entry, if that trade is closed
OfLatestEntry(k) == trades[k].entry_time = entered.bar

\* C20: a Trade closed at its stop loses atr_at_entry * size, which is at
\* most risk_fraction * the equity before the entry commission, and its
\* notional size * entry_price is at most max_leverage * that equity; every
\* stop trade has pnl < 0 and every target trade pnl > 0.
C20_StopLossWithinRiskBudget ==
    \A k \in 1..Len(trades) :
        /\ trades[k].reason = "stop" => Lt(trades[k].pnl, R(0))
        /\ trades[k].reason = "target" => Lt(R(0), trades[k].pnl)
        /\ (trades[k].reason = "stop" /\ OfLatestEntry(k)) =>
             /\ Neg(trades[k].pnl) = Mul(entered.atr, trades[k].size)
             /\ Le(Neg(trades[k].pnl), Mul(risk_fraction, entered.equity))
             /\ Le(Mul(trades[k].size, trades[k].entry_price),
                   Mul(max_leverage, entered.equity))

\* A stop trade that uses the whole budget: entered with 1000 of equity,
\* atr 2, size 5, closed at its stop with a loss of 10 = 0.01 * 1000
C20_Witness ==
    /\ pc = "signal"
    /\ Len(trades) = 1
    /\ trades[1].reason = "stop"
    /\ OfLatestEntry(1)
    /\ entered.equity = R(1000)
    /\ trades[1].size = R(5)
    /\ trades[1].pnl = R(-10)

\* A target trade: a gain of 1.5 * atr * size
C20_WitnessTarget ==
    /\ pc = "signal"
    /\ Len(trades) = 1
    /\ trades[1].reason = "target"
    /\ OfLatestEntry(1)
    /\ trades[1].pnl = Mul(Mul(Frac(3, 2), entered.atr), trades[1].size)

\* The stop level is crossed by the bar, for the direction held
StopCrossed ==
    /\ stop # None
    /\ IF position = 1 THEN Le(row.low, stop) ELSE Le(stop, row.high)

\* The target level is crossed by the bar, for the direction held
TargetCrossed ==
    /\ target # None
    /\ IF position = 1 THEN Le(target, row.high) ELSE Le(row.low, target)

\* C16: check_stop_target returns a result exactly when, for a long,
\* bar_low <= stop or bar_high >= target and, for a short, bar_high >= stop
\* or bar_low <= target; a stop result needs a crossed non-null stop, a
\* target result a crossed non-null target, each at its own level, and the
\* result is none when neither non-null level is crossed.
C16_TriggersExactlyWhenCrossed ==
    pc = "checked" =>
        /\ (fill # None) <=> (StopCrossed \/ TargetCrossed)
        /\ fill # None => fill[1] \in {"stop", "target"}
        /\ (fill # None /\ fill[1] = "stop") => (StopCrossed /\ fill[2] = stop)
        /\ (fill # None /\ fill[1] = "target") => (TargetCrossed /\ fill[2] = target)
        /\ stop = None => (fill = None \/ fill[1] # "stop")
        /\ target = None => (fill = None \/ fill[1] # "target")

\* A short whose stop the bar's high only touches, with no target set
C16_Witness ==
    /\ pc = "checked"
    /\ position = -1
    /\ stop = row.high
    /\ target = None
    /\ fill = <<"stop", stop>>

\* A long with no stop and a target above the bar's high: no result
C16_WitnessNone ==
    /\ pc = "checked"
    /\ position = 1
    /\ stop = None
    /\ target # None
    /\ Lt(row.high, target)
    /\ fill = None

\* The row signal was last called on lies outside [min_time, max_time]
OutsideWindow == row.tod < strategy.min_time \/ row.tod > strategy.max_time

\* C15: IntradayMeanReversion.signal and IntradayBreakout.signal return
\* none for a bar whose time of day is outside [min_time, max_time],
\* whatever the cooldown counter, the position flag and the indicator
\* values are.
C15_NoSignalOutsideWindow ==
    (sig # "unqueried" /\ OutsideWindow) => sig = "none"

\* A breakout strategy that is long, called after max_time on a bar that
\* breaks the channel downwards: inside the window this is an exit
C15_Witness ==
    /\ strategy.kind = "breakout"
    /\ strategy.position = 1
    /\ row.tod > strategy.max_time
    /\ Lt(row.low, row.don_low)
    /\ sig = "none"

\* A mean-reversion strategy with no cooldown left, called before min_time
\* on a bar that closes back above the lower band after an oversold close
\* below it: inside the window this is an entry
C15_WitnessMeanReversion ==
    /\ strategy.kind = "mean_reversion"
    /\ strategy.cooldown = 0
    /\ row.tod < strategy.min_time
    /\ held # NoRow
    /\ Lt(held.close, held.bb_dn)
    /\ Lt(held.rsi, R(30))
    /\ Lt(row.bb_dn, row.close)
    /\ Lt(row.close, row.bb_mid)
    /\ sig = "none"

====
